---- MODULE Spec2Model ----
(***************************************************************************)
(* Model of the Bot-Detector core: the paginated SQL executor execute_sql, *)
(* the result wrappers sql_cursor / sqlalchemy_result, the token verifier  *)
(* verify_token (api/database/functions.py) and the highscore routes that  *)
(* sit behind verify_and_log_token (src/api/v2/highscore.py).              *)
(*                                                                         *)
(* Python strings are sequences of one-character strings, dictionaries are *)
(* functions whose DOMAIN is the set of keys, lists are sequences.         *)
(***************************************************************************)
EXTENDS Integers, Sequences, FiniteSets, TLC

VARIABLES
    calls,          \* execute_sql: one activation record per caller
    defaultParam,   \* execute_sql: the one dict object behind `param={}`
    engine,         \* the module-level engine: its pool's connections
    store,          \* rows committed to the scores table
    tokens,         \* the Token table, a sequence of rows
    verifs,         \* verify_token: one activation record per caller
    cursor,         \* one sql_cursor object and what was materialized from it
    requests        \* highscore routes: one record per HTTP request

vars == <<calls, defaultParam, engine, store, tokens, verifs, cursor, requests>>

-----------------------------------------------------------------------------
(* Bounds of the model *)

NumCalls == 2        \* callers of execute_sql that may overlap
MaxTokenRows == 2    \* rows in the Token table
MaxResultRows == 2   \* rows of a read result handed to sql_cursor
NumRequests == 2     \* HTTP requests in flight

(* Program constant: the row cap of line 24 *)
MaxRowCount == 100000

Calls == 1..NumCalls

-----------------------------------------------------------------------------
(* Python str helpers *)

Whitespace == {" ", "\t", "\n", "\r", "\f"}

UpperAlpha == <<"A","B","C","D","E","F","G","H","I","J","K","L","M",
                "N","O","P","Q","R","S","T","U","V","W","X","Y","Z">>
LowerAlpha == <<"a","b","c","d","e","f","g","h","i","j","k","l","m",
                "n","o","p","q","r","s","t","u","v","w","x","y","z">>

LowerChar(ch) ==
    IF \E i \in 1..26 : UpperAlpha[i] = ch
    THEN LowerAlpha[CHOOSE i \in 1..26 : UpperAlpha[i] = ch]
    ELSE ch

\* str.lower()
Lower(s) == [i \in 1..Len(s) |-> LowerChar(s[i])]

\* str.strip(): drop leading and trailing whitespace
Strip(s) ==
    LET keep == {i \in 1..Len(s) : s[i] \notin Whitespace}
    IN  IF keep = {} THEN <<>>
        ELSE LET lo == CHOOSE i \in keep : \A j \in keep : i <= j
                 hi == CHOOSE i \in keep : \A j \in keep : j <= i
             IN  SubSeq(s, lo, hi)

\* str.startswith(prefix)
StartsWith(s, prefix) ==
    /\ Len(s) >= Len(prefix)
    /\ SubSeq(s, 1, Len(prefix)) = prefix

KwSelect == <<"s","e","l","e","c","t">>
KwInsert == <<"i","n","s","e","r","t">>

\* the text appended at line 28: ' limit :offset, :row_count'
LimitClause ==
    <<" ","l","i","m","i","t"," ",":","o","f","f","s","e","t",",",
      " ",":","r","o","w","_","c","o","u","n","t">>

-----------------------------------------------------------------------------
(* Python dict helpers *)

EmptyDict == <<>>

DictSet(d, k, v) == [x \in DOMAIN d \cup {k} |-> IF x = k THEN v ELSE d[x]]

DictGet(d, k, default) == IF k \in DOMAIN d THEN d[k] ELSE default

-----------------------------------------------------------------------------
(* execute_sql: the synchronous prologue, lines 19-31 *)

\* the prefix test without lower()
HasReturnCaseSensitive(sql) == StartsWith(Strip(sql), KwSelect)

\* line 19: sql.strip().lower().startswith('select')
HasReturn(sql) == StartsWith(Lower(Strip(sql)), KwSelect)

\* line 24: row_count if row_count <= 100_000 else 100_000
ClampRowCount(row_count) ==
    IF row_count <= MaxRowCount THEN row_count ELSE MaxRowCount

\* line 25: page if page >= 1 else 1
ClampPage(page) == IF page >= 1 THEN page ELSE 1

\* line 26: (page - 1)*row_count
Offset(page, row_count) == (page - 1) * row_count

\* line 28: f'{sql} limit :offset, :row_count'
Paginate(sql) == sql \o LimitClause

\* lines 30-31: the two item assignments on the dict `param` names
AddPagination(param, offset, row_count) ==
    DictSet(DictSet(param, "offset", offset), "row_count", row_count)

-----------------------------------------------------------------------------
(* The store as execute_sql sees it *)

\* what the database does with a statement: an insert adds the caller's row
IsInsert(sql) == StartsWith(Lower(Strip(sql)), KwInsert)

RECURSIVE SortedSeq(_)
SortedSeq(S) ==
    IF S = {} THEN <<>>
    ELSE LET m == CHOOSE x \in S : \A y \in S : x <= y
         IN  <<m>> \o SortedSeq(S \ {m})

\* MySQL `limit offset, row_count` over the visible rows
Page(rows, offset, row_count) ==
    LET last == IF offset + row_count < Len(rows)
                THEN offset + row_count ELSE Len(rows)
    IN  SubSeq(rows, offset + 1, last)

\* line 50: sql_cursor(rows) if has_return else None
NoRecords == [kind |-> "None", rows |-> <<>>]
SqlCursor(rows) == [kind |-> "sql_cursor", rows |-> rows]

\* a commit that loses the transaction's writes
CommitStoreLost(st, c, pending) == st

\* line 51: session.commit() makes the transaction's writes part of the store
CommitStore(st, c, pending) == IF pending THEN st \cup {c} ELSE st

-----------------------------------------------------------------------------
(* The engine's pool.  A connection is "none" (never opened), "out"        *)
(* (checked out), "out_detached" (checked out, its pool since disposed),   *)
(* "pooled" (checked in, open), "closed", or "orphaned" (checked in to a   *)
(* disposed pool: open until collected, never handed out again).           *)

Pooled(e) == {k \in DOMAIN e : e[k] = "pooled"}

\* engine.connect(): the pool hands out a checked-in connection when it has
\* one and opens a new one otherwise
Checkout(e, c) ==
    IF Pooled(e) # {}
    THEN CHOOSE k \in Pooled(e) : \A j \in Pooled(e) : k <= j
    ELSE c

\* leaving `async with engine.connect()`: the connection returns to its pool
Checkin(e, k) ==
    [e EXCEPT ![k] = IF e[k] = "out_detached" THEN "orphaned" ELSE "pooled"]

\* line 53: engine.dispose() closes the checked-in connections and replaces
\* the pool; connections still checked out are left to their holders
DisposeEngine(e) ==
    [k \in DOMAIN e |->
        CASE e[k] = "pooled" -> "closed"
          [] e[k] = "out"    -> "out_detached"
          [] OTHER           -> e[k]]

-----------------------------------------------------------------------------
(* execute_sql as a coroutine: it runs from one await to the next *)

IdleCall ==
    [pc |-> "idle", sql_arg |-> <<>>, param_ref |-> "own",
     param_arg |-> EmptyDict, row_count_arg |-> 0, page_arg |-> 0,
     sql |-> <<>>, has_return |-> FALSE, row_count |-> 0, page |-> 0,
     own |-> EmptyDict, bound_sql |-> <<>>, bound_param |-> EmptyDict,
     executed |-> FALSE, records |-> NoRecords, conn |-> 0,
     failed |-> FALSE, txn |-> "none", pending |-> FALSE,
     disposed |-> FALSE]

\* the dict object the call's `param` names, as it is now
ParamOf(c) ==
    IF calls[c].param_ref = "default" THEN defaultParam ELSE calls[c].own

\* lines 18-40: the call is entered and runs to its first await (line 43).
\* ref = "default" when the caller passes no param, so that `param` is the
\* function's one default dict; "own" when the caller passes the dict p.
Begin(c, s, ref, p, rl, pg) ==
    /\ calls[c].pc = "idle"
    /\ LET hr  == HasReturn(s)
           rc  == IF hr THEN ClampRowCount(rl) ELSE rl
           pgc == IF hr THEN ClampPage(pg) ELSE pg
           off == Offset(pgc, rc)
           obj == IF ref = "default" THEN defaultParam ELSE p
           new == IF hr THEN AddPagination(obj, off, rc) ELSE obj
       IN  /\ calls' = [calls EXCEPT ![c] =
                  [IdleCall EXCEPT
                      !.pc = "connect", !.sql_arg = s, !.param_ref = ref,
                      !.param_arg = IF ref = "default" THEN EmptyDict ELSE p,
                      !.row_count_arg = rl, !.page_arg = pg,
                      !.sql = IF hr THEN Paginate(s) ELSE s,
                      !.has_return = hr, !.row_count = rc, !.page = pgc,
                      !.own = IF ref = "default" THEN EmptyDict ELSE new]]
           /\ defaultParam' = IF ref = "default" THEN new ELSE defaultParam
    /\ UNCHANGED <<engine, store, tokens, verifs, cursor, requests>>

\* line 43: engine.connect() succeeds
Connect(c) ==
    /\ calls[c].pc = "connect"
    /\ LET k == Checkout(engine, c)
       IN  /\ engine' = [engine EXCEPT ![k] = "out"]
           /\ calls' = [calls EXCEPT ![c].pc = "execute", ![c].conn = k]
    /\ UNCHANGED <<defaultParam, store, tokens, verifs, cursor, requests>>

\* line 43: engine.connect() raises; nothing was opened, line 53 is not reached
ConnectFails(c) ==
    /\ calls[c].pc = "connect"
    /\ calls' = [calls EXCEPT ![c].pc = "raised", ![c].failed = TRUE]
    /\ UNCHANGED <<defaultParam, engine, store, tokens, verifs, cursor, requests>>

\* lines 48-50: session.execute(sql, param) with the dict as it is now, then
\* the result is wrapped.  The store refuses a negative limit or offset.
Execute(c) ==
    /\ calls[c].pc = "execute"
    /\ LET prm  == ParamOf(c)
           seen == SortedSeq(store)
       IN  /\ calls[c].has_return =>
                 /\ prm["offset"] >= 0
                 /\ prm["row_count"] >= 0
           /\ calls' = [calls EXCEPT
                  ![c].pc = "commit",
                  ![c].bound_sql = calls[c].sql,
                  ![c].bound_param = prm,
                  ![c].executed = TRUE,
                  ![c].txn = "open",
                  ![c].pending = IsInsert(calls[c].sql),
                  ![c].records =
                      IF calls[c].has_return
                      THEN SqlCursor(Page(seen, prm["offset"], prm["row_count"]))
                      ELSE NoRecords]
    /\ UNCHANGED <<defaultParam, engine, store, tokens, verifs, cursor, requests>>

\* line 48 raises (malformed SQL, constraint violation, lost connection)
ExecuteFails(c) ==
    /\ calls[c].pc = "execute"
    /\ calls' = [calls EXCEPT
           ![c].pc = "exit",
           ![c].bound_sql = calls[c].sql,
           ![c].bound_param = ParamOf(c),
           ![c].executed = TRUE,
           ![c].failed = TRUE]
    /\ UNCHANGED <<defaultParam, engine, store, tokens, verifs, cursor, requests>>

\* line 51: session.commit()
Commit(c) ==
    /\ calls[c].pc = "commit"
    /\ store' = CommitStore(store, c, calls[c].pending)
    /\ calls' = [calls EXCEPT
           ![c].pc = "exit", ![c].txn = "committed", ![c].pending = FALSE]
    /\ UNCHANGED <<defaultParam, engine, tokens, verifs, cursor, requests>>

\* line 51 raises
CommitFails(c) ==
    /\ calls[c].pc = "commit"
    /\ calls' = [calls EXCEPT ![c].pc = "exit", ![c].failed = TRUE]
    /\ UNCHANGED <<defaultParam, engine, store, tokens, verifs, cursor, requests>>

\* lines 43-51, leaving both `async with` blocks: the session closes (an open
\* transaction is rolled back) and the connection returns to the pool.  An
\* exception then leaves the function; otherwise line 53 is next.
Exit(c) ==
    /\ calls[c].pc = "exit"
    /\ engine' = Checkin(engine, calls[c].conn)
    /\ calls' = [calls EXCEPT
           ![c].pc = IF calls[c].failed THEN "raised" ELSE "dispose",
           ![c].txn = IF calls[c].txn = "open" THEN "rolled_back"
                      ELSE calls[c].txn,
           ![c].pending = FALSE]
    /\ UNCHANGED <<defaultParam, store, tokens, verifs, cursor, requests>>

\* lines 53-54: engine.dispose(), return records
Dispose(c) ==
    /\ calls[c].pc = "dispose"
    /\ engine' = DisposeEngine(engine)
    /\ calls' = [calls EXCEPT ![c].pc = "returned", ![c].disposed = TRUE]
    /\ UNCHANGED <<defaultParam, store, tokens, verifs, cursor, requests>>

\* the caller is done with the call and may call again
Reset(c) ==
    /\ calls[c].pc \in {"returned", "raised"}
    /\ calls' = [calls EXCEPT ![c] = IdleCall]
    /\ UNCHANGED <<defaultParam, engine, store, tokens, verifs, cursor, requests>>

Step(c) ==
    \/ Connect(c)
    \/ ConnectFails(c)
    \/ Execute(c)
    \/ ExecuteFails(c)
    \/ Commit(c)
    \/ CommitFails(c)
    \/ Exit(c)
    \/ Dispose(c)

-----------------------------------------------------------------------------
(* Initial state: nothing called yet, an empty scores table, a Token table *)
(* holding the row of the specification's scenario.                        *)

TokenRow(tok, rh, vb, ct, vp) ==
    [token |-> tok, request_highscores |-> rh, verify_ban |-> vb,
     create_token |-> ct, verify_players |-> vp]

NoOutcome == [kind |-> "none", status_code |-> 0, detail |-> <<>>]

IdleVerif ==
    [pc |-> "idle", token |-> "", verifcation |-> "", data |-> <<>>,
     outcome |-> NoOutcome, why |-> "none", granted_since_start |-> FALSE,
     prior |-> [verifcation |-> "", outcome |-> NoOutcome]]

NoCursor ==
    [made |-> FALSE, keys |-> <<>>, rows |-> <<>>, fetched |-> 0,
     dicts |-> <<>>, tuples |-> <<>>, order |-> <<>>, error |-> "none"]

IdleRequest ==
    [pc |-> "idle", route |-> "none", verify |-> "none",
     repo |-> "none", status |-> 0]

Init ==
    /\ calls = [c \in Calls |-> IdleCall]
    /\ defaultParam = EmptyDict
    /\ engine = [k \in Calls |-> "none"]
    /\ store = {}
    /\ tokens = <<TokenRow("abc", 0, 1, 0, 0)>>
    /\ verifs = [v \in {1} |-> IdleVerif]
    /\ cursor = NoCursor
    /\ requests = [r \in 1..NumRequests |-> IdleRequest]

-----------------------------------------------------------------------------
(* Callers of execute_sql *)

Sp == <<" ">>
Tab == <<"\t">>
One == <<" ", "1">>

\* statements a caller may pass: leading/trailing whitespace, letter case,
\* near misses of the keyword, and statements of other kinds
Statements ==
    { KwSelect \o One,                                  \* 'select 1'
      <<"S","E","L","E","C","T">> \o One,               \* 'SELECT 1'
      Sp \o Tab \o <<"S","e","L","e","c","T">> \o One \o Sp,
      KwSelect,                                         \* 'select'
      KwSelect \o <<"x">>,                              \* 'selectx'
      <<"s","e","l","e","c">> \o One,                   \* 'selec 1'
      <<"w","i","t","h"," ">> \o KwSelect \o One,       \* 'with select 1'
      KwInsert \o One,                                  \* 'insert 1'
      Sp \o <<"I","N","S","E","R","T">> \o One,         \* ' INSERT 1'
      KwSelect \o One \o LimitClause,     \* already carries the clause text
      Sp,
      <<>> }

\* caller-supplied mappings, the last one using the reserved names
OwnParams ==
    { EmptyDict,
      [k \in {"id"} |-> 7],
      [k \in {"offset", "row_count"} |-> 9] }

RowLimits == {-1, 5, MaxRowCount, MaxRowCount + 1}
Pages == {-2, 0, 1, 2}

\* one caller, one call after the other, every kind of argument
NextSeq ==
    \/ \E s \in Statements, rl \in RowLimits, pg \in Pages :
          \/ Begin(1, s, "default", EmptyDict, rl, pg)
          \/ \E p \in OwnParams : Begin(1, s, "own", p, rl, pg)
    \/ Step(1)
    \/ Reset(1)

SpecSeq == Init /\ [][NextSeq]_vars

\* overlapping calls: two reads that rely on the default
\* mapping and a write that passes a mapping of its own
ConcDefaultCalls ==
    { <<KwSelect \o One, 5, 2>>,
      <<KwSelect \o One, 7, 1>> }
ConcOwnCalls == { <<KwInsert \o One, MaxRowCount, 1>> }

\* calls are numbered in the order in which they are entered
Entered(c) == \A d \in 1..(c - 1) : calls[d].pc # "idle"

NextConc ==
    \E c \in Calls :
        \/ /\ Entered(c)
           /\ \E a \in ConcDefaultCalls :
                 Begin(c, a[1], "default", EmptyDict, a[2], a[3])
        \/ /\ Entered(c)
           /\ \E a \in ConcOwnCalls :
                 Begin(c, a[1], "own", [k \in {"id"} |-> 7], a[2], a[3])
        \/ Step(c)

SpecConc == Init /\ [][NextConc]_vars

-----------------------------------------------------------------------------
(* Properties of execute_sql *)

MinOf(a, b) == CHOOSE m \in {a, b} : m <= a /\ m <= b
MaxOf(a, b) == CHOOSE m \in {a, b} : m >= a /\ m >= b

\* a statement is a read when, past its leading whitespace, its next six
\* characters spell 'select' in any letter case
IsSelectStmt(s) ==
    \E k \in 0..Len(s) :
        /\ \A i \in 1..k : s[i] \in Whitespace
        /\ Len(s) >= k + 6
        /\ \A j \in 1..6 : LowerChar(s[k + j]) = KwSelect[j]

\* how often the text sub occurs in s
Occurrences(sub, s) ==
    Cardinality({i \in 1..(Len(s) - Len(sub) + 1) :
                    SubSeq(s, i, i + Len(sub) - 1) = sub})

\* C3: every read execution binds row_count = min(rowLimit, 100000) and
\* offset = (max(page, 1) - 1) * row_count; a rowLimit above 100000 gives
\* exactly 100000, a page <= 0 counts as page 1, and rowLimit = 5, page = 2
\* gives offset = 5, row_count = 5.
C3_PaginationParameters ==
    \A c \in Calls :
        (calls[c].executed /\ IsSelectStmt(calls[c].sql_arg)) =>
            LET rl == calls[c].row_count_arg
                pg == calls[c].page_arg
                bp == calls[c].bound_param
            IN  /\ {"offset", "row_count"} \subseteq DOMAIN bp
                /\ bp["row_count"] = MinOf(rl, 100000)
                /\ bp["offset"] = (MaxOf(pg, 1) - 1) * bp["row_count"]
                /\ rl > 100000 => bp["row_count"] = 100000
                /\ pg <= 0 => bp["offset"] = 0
                /\ (rl = 5 /\ pg = 2) =>
                       (bp["offset"] = 5 /\ bp["row_count"] = 5)

\* C4: a statement that is not a read is executed with its text unchanged
\* and the call returns None; a read, in any letter case and behind any
\* leading whitespace, is executed with the limit clause appended once.
C4_ClauseOnlyOnReads ==
    \A c \in Calls :
        calls[c].executed =>
            LET s == calls[c].sql_arg
            IN  IF IsSelectStmt(s)
                THEN /\ calls[c].bound_sql = s \o LimitClause
                     /\ Occurrences(LimitClause, calls[c].bound_sql)
                            = Occurrences(LimitClause, s) + 1
                ELSE /\ calls[c].bound_sql = s
                     /\ calls[c].pc = "returned" =>
                            calls[c].records.kind = "None"

\* a read written in mixed case behind whitespace returned with the clause
C4_Witness ==
    \E c \in Calls :
        /\ calls[c].pc = "returned"
        /\ Len(calls[c].sql_arg) > 0
        /\ calls[c].sql_arg[1] \in Whitespace
        /\ Lower(calls[c].sql_arg) # calls[c].sql_arg
        /\ IsSelectStmt(calls[c].sql_arg)
        /\ calls[c].bound_sql = calls[c].sql_arg \o LimitClause
        /\ calls[c].records.kind = "sql_cursor"

\* C5: a call that got past its commit -- still holding its connection,
\* disposing, or returned -- has committed its transaction, and the row of
\* an insert is in the store from then on.
C5_CommittedBeforeReturn ==
    \A c \in Calls :
        (/\ calls[c].pc \in {"exit", "dispose", "returned"}
         /\ ~calls[c].failed) =>
            /\ calls[c].txn = "committed"
            /\ IsInsert(calls[c].sql_arg) => c \in store

\* an insert has returned and a read begun after it saw the row
C5_Witness ==
    \E c, d \in Calls :
        /\ calls[c].pc = "returned"
        /\ IsInsert(calls[c].sql_arg)
        /\ c \in store
        /\ calls[d].pc = "returned"
        /\ calls[d].has_return
        /\ calls[d].records.kind = "sql_cursor"
        /\ \E i \in 1..Len(calls[d].records.rows) : calls[d].records.rows[i] = c

\* C6: when a call has ended, by return or by exception, the engine has been
\* disposed by it and the connection it used is closed.
C6_ReleasedOnEveryExit ==
    \A c \in Calls :
        calls[c].pc \in {"returned", "raised"} =>
            /\ calls[c].disposed
            /\ calls[c].conn # 0 => engine[calls[c].conn] = "closed"

\* C7: what a call executes depends on its own arguments only: a read binds
\* the caller's mapping plus offset and row_count computed from its own
\* rowLimit and page, a write binds exactly the caller's mapping (the empty
\* one when the caller passed none).
C7_OwnArgumentsOnly ==
    \A c \in Calls :
        calls[c].executed =>
            LET s  == calls[c].sql_arg
                rc == MinOf(calls[c].row_count_arg, 100000)
                of == (MaxOf(calls[c].page_arg, 1) - 1) * rc
                p  == calls[c].param_arg
            IN  IF IsSelectStmt(s)
                THEN /\ calls[c].bound_sql = s \o LimitClause
                     /\ calls[c].bound_param =
                            [k \in DOMAIN p \cup {"offset", "row_count"} |->
                                CASE k = "offset"    -> of
                                  [] k = "row_count" -> rc
                                  [] OTHER           -> p[k]]
                ELSE /\ calls[c].bound_sql = s
                     /\ calls[c].bound_param = p

-----------------------------------------------------------------------------
(* verify_token *)

\* the columns of Token.__table__ that verify_token reads, in table order
TokenColumns ==
    <<"token", "request_highscores", "verify_ban", "create_token",
      "verify_players">>

\* the query without its where clause
TokenQueryNoWhere(tbl, token) == [i \in 1..Len(tbl) |-> <<tbl[i]>>]

\* lines 81-86: select(Token).where(Token.token == token); each result row
\* is a one-element tuple holding the entity
TokenQuery(tbl, token) ==
    LET hit == SelectSeq(tbl, LAMBDA row : row.token = token)
    IN  [i \in 1..Len(hit) |-> <<hit[i]>>]

\* line 69: [row[0] for row in rows]
SqlalchemyResult(data) == [i \in 1..Len(data) |-> data[i][1]]

\* lines 74-77: a Record per row, its fields named after the columns and
\* filled positionally with getattr(row, col.name)
SqlalchemyResultRows2Tuple(rows) ==
    LET columns == TokenColumns
        values(row) == [i \in 1..Len(columns) |-> row[columns[i]]]
        Record(vals) ==
            [n \in {columns[i] : i \in 1..Len(columns)} |->
                vals[CHOOSE i \in 1..Len(columns) : columns[i] = n]]
    IN  [i \in 1..Len(rows) |-> Record(values(rows[i]))]

\* lines 100-105: the dict of all possible checks, read off the first record
Permissions(player_token) ==
    [k \in {"hiscore", "ban", "create_token", "verify_players"} |->
        CASE k = "hiscore"        -> player_token[1].request_highscores
          [] k = "ban"            -> player_token[1].verify_ban
          [] k = "create_token"   -> player_token[1].create_token
          [] k = "verify_players" -> player_token[1].verify_players]

\* permissions.get with the default the wrong way round
PermissionsGetDefaultOne(permissions, verifcation) ==
    DictGet(permissions, verifcation, 1)

\* line 108: permissions.get(verifcation, 0)
PermissionsGet(permissions, verifcation) == DictGet(permissions, verifcation, 0)

HTTPException(status_code, detail) ==
    [kind |-> "HTTPException", status_code |-> status_code, detail |-> detail]

ReturnTrue == [kind |-> "return_True", status_code |-> 0, detail |-> <<>>]

\* a denial that says the token is unknown
RaiseTokenNotFound(verifcation) ==
    HTTPException(404, <<"token not found: ", verifcation>>)

\* line 91: no row came back
RaiseNoRows(verifcation) ==
    HTTPException(404, <<"insufficient permissions: ", verifcation>>)

\* line 97: the list of records is empty
RaiseNoRecords(verifcation) ==
    HTTPException(404, <<"insufficient permissions: ", verifcation>>)

\* line 111: the permission is not granted
RaiseNotGranted(verifcation) ==
    HTTPException(404, <<"insufficient permissions: ", verifcation>>)

\* lines 89-111: everything after the query, which runs without an await
ParseAndCheck(data, verifcation) ==
    LET rows == SqlalchemyResult(data)
    IN  IF Len(rows) = 0 THEN RaiseNoRows(verifcation)
        ELSE LET player_token == SqlalchemyResultRows2Tuple(rows)
             IN  IF player_token = <<>> THEN RaiseNoRecords(verifcation)
                 ELSE IF PermissionsGet(Permissions(player_token),
                                        verifcation) = 1
                      THEN ReturnTrue
                      ELSE RaiseNotGranted(verifcation)

\* What the store holds for (token, permission), stated apart from the code:
\* "granted" when the first row with that token has the flag the registry
\* names at 1, "no_row" when no row has that token, "not_granted" otherwise.
Registry ==
    [hiscore |-> "request_highscores", ban |-> "verify_ban",
     create_token |-> "create_token", verify_players |-> "verify_players"]

StoreSays(tbl, token, permission) ==
    LET matching == {i \in 1..Len(tbl) : tbl[i].token = token}
    IN  IF matching = {} THEN "no_row"
        ELSE LET first == CHOOSE i \in matching : \A j \in matching : i <= j
             IN  IF /\ permission \in DOMAIN Registry
                    /\ tbl[first][Registry[permission]] = 1
                 THEN "granted" ELSE "not_granted"

\* line 79: the call is entered and runs to the await of line 86
VerifyStart(v, token, verifcation) ==
    /\ verifs[v].pc = "idle"
    /\ verifs' = [verifs EXCEPT ![v] =
           [@ EXCEPT !.pc = "query", !.token = token,
                     !.verifcation = verifcation,
                     !.granted_since_start =
                         StoreSays(tokens, token, verifcation) = "granted"]]
    /\ UNCHANGED <<calls, defaultParam, engine, store, tokens, cursor, requests>>

\* line 86: session.execute(sql) answers with the rows of the table as it is
VerifyQuery(v) ==
    /\ verifs[v].pc = "query"
    /\ verifs' = [verifs EXCEPT ![v] =
           [@ EXCEPT !.pc = "close",
                     !.data = TokenQuery(tokens, verifs[v].token),
                     !.why = StoreSays(tokens, verifs[v].token,
                                       verifs[v].verifcation)]]
    /\ UNCHANGED <<calls, defaultParam, engine, store, tokens, cursor, requests>>

\* line 86 raises: the store could not be queried
VerifyQueryFails(v) ==
    /\ verifs[v].pc = "query"
    /\ verifs' = [verifs EXCEPT ![v] =
           [@ EXCEPT !.pc = "done",
                     !.outcome = [kind |-> "OperationalError",
                                  status_code |-> 0, detail |-> <<>>]]]
    /\ UNCHANGED <<calls, defaultParam, engine, store, tokens, cursor, requests>>

\* lines 85-111: the session closes, the rows are parsed and checked
VerifyFinish(v) ==
    /\ verifs[v].pc = "close"
    /\ LET out == ParseAndCheck(verifs[v].data, verifs[v].verifcation)
       IN  verifs' = [verifs EXCEPT ![v] =
               [@ EXCEPT !.pc = "done", !.data = <<>>, !.outcome = out,
                         !.prior =
                             IF verifs[v].why = "no_row"
                             THEN [verifcation |-> verifs[v].verifcation,
                                   outcome |-> out]
                             ELSE @]]
    /\ UNCHANGED <<calls, defaultParam, engine, store, tokens, cursor, requests>>

\* the caller has its answer and may ask again
VerifyReset(v) ==
    /\ verifs[v].pc = "done"
    /\ verifs' = [verifs EXCEPT ![v] = [IdleVerif EXCEPT !.prior = verifs[v].prior]]
    /\ UNCHANGED <<calls, defaultParam, engine, store, tokens, cursor, requests>>

\* The Token table changes only through the administrative path, one
\* committed change at a time; calls in flight remember whether the
\* permission they ask for was granted at any time since they started.
Remember(tbl) ==
    [v \in DOMAIN verifs |->
        IF verifs[v].pc \in {"query", "close"}
        THEN [verifs[v] EXCEPT !.granted_since_start =
                 @ \/ StoreSays(tbl, verifs[v].token,
                                verifs[v].verifcation) = "granted"]
        ELSE verifs[v]]

AdminCommit(tbl) ==
    /\ tokens' = tbl
    /\ verifs' = Remember(tbl)
    /\ UNCHANGED <<calls, defaultParam, engine, store, cursor, requests>>

AdminInsert(row) ==
    /\ Len(tokens) < MaxTokenRows
    /\ AdminCommit(Append(tokens, row))

AdminUpdate(i, row) ==
    /\ i \in 1..Len(tokens)
    /\ row.token = tokens[i].token
    /\ row # tokens[i]
    /\ AdminCommit([tokens EXCEPT ![i] = row])

AdminDelete(i) ==
    /\ i \in 1..Len(tokens)
    /\ AdminCommit(SubSeq(tokens, 1, i - 1) \o SubSeq(tokens, i + 1, Len(tokens)))

AskedTokens == {"abc", "missing"}
Verifications == {"hiscore", "ban", "create_token", "verify_players", "verify_ban"}

\* rows the administrative path writes: for 'abc' no permission, verify_ban
\* only (the specification's scenario) or everything but verify_ban; for
\* 'xyz' every permission
AdminRows ==
    {TokenRow("abc", f[1], f[2], f[3], f[4]) :
        f \in {<<0, 0, 0, 0>>, <<0, 1, 0, 0>>, <<1, 0, 1, 1>>}}
    \cup {TokenRow("xyz", 1, 1, 1, 1)}

NextVerify ==
    \/ \E tok \in AskedTokens, p \in Verifications : VerifyStart(1, tok, p)
    \/ VerifyQuery(1)
    \/ VerifyQueryFails(1)
    \/ VerifyFinish(1)
    \/ VerifyReset(1)
    \/ \E row \in AdminRows : AdminInsert(row)
    \/ \E i \in 1..MaxTokenRows, row \in AdminRows : AdminUpdate(i, row)
    \/ \E i \in 1..MaxTokenRows : AdminDelete(i)

SpecVerify == Init /\ [][NextVerify]_vars

-----------------------------------------------------------------------------
(* Properties of verify_token *)

Finished(v) == verifs[v].pc = "done" /\ verifs[v].why # "none"

\* C1: a call whose query was answered returns True exactly when the store
\* held, at the query, a row with that token whose first match has the
\* registry's flag for the permission at 1; in every other case, an unknown
\* permission name included, it raises the 404 HTTPException and nothing else.
C1_VerifyIffGranted ==
    \A v \in DOMAIN verifs :
        Finished(v) =>
            /\ verifs[v].outcome = ReturnTrue <=> verifs[v].why = "granted"
            /\ verifs[v].why # "granted" =>
                  /\ verifs[v].outcome.kind = "HTTPException"
                  /\ verifs[v].outcome.status_code = 404

\* a call was granted while a second row of the same token says otherwise
C1_Witness ==
    \E v \in DOMAIN verifs :
        /\ Finished(v)
        /\ verifs[v].outcome = ReturnTrue
        /\ verifs[v].verifcation = "ban"
        /\ Len(tokens) = 2
        /\ tokens[1].token = verifs[v].token
        /\ tokens[2].token = verifs[v].token
        /\ tokens[1].verify_ban = 1
        /\ tokens[2].verify_ban = 0

\* C2: a denial for a row that exists (flag not granted, or unknown name) is,
\* field for field, the denial an earlier call got for the same permission
\* name when no row existed.
C2_DenialsIndistinguishable ==
    \A v \in DOMAIN verifs :
        (/\ Finished(v)
         /\ verifs[v].why = "not_granted"
         /\ verifs[v].prior.verifcation = verifs[v].verifcation) =>
            verifs[v].outcome = verifs[v].prior.outcome

\* both denials have happened for one permission name
C2_Witness ==
    \E v \in DOMAIN verifs :
        /\ Finished(v)
        /\ verifs[v].why = "not_granted"
        /\ verifs[v].token = "abc"
        /\ verifs[v].prior.verifcation = verifs[v].verifcation
        /\ verifs[v].prior.outcome.kind = "HTTPException"
        /\ verifs[v].outcome.kind = "HTTPException"

\* C8: a call during whose whole run the store never granted the permission
\* to the token -- a revocation committed before it started included -- does
\* not return True: it is denied, or fails on the store.
C8_RevocationImmediate ==
    \A v \in DOMAIN verifs :
        (verifs[v].pc = "done" /\ ~verifs[v].granted_since_start) =>
            /\ verifs[v].outcome # ReturnTrue
            /\ verifs[v].why # "none" =>
                  verifs[v].outcome.kind = "HTTPException"

\* 'ban' was granted to 'abc' at first; a call begun after the revocation
\* was denied
C8_Witness ==
    \E v \in DOMAIN verifs :
        /\ Finished(v)
        /\ verifs[v].token = "abc"
        /\ verifs[v].verifcation = "ban"
        /\ ~verifs[v].granted_since_start
        /\ verifs[v].why = "not_granted"
        /\ verifs[v].outcome.kind = "HTTPException"

-----------------------------------------------------------------------------
(* sql_cursor: the wrapper around the result of a read.  The result is a    *)
(* forward-only, buffered row source: `fetched` rows of it are consumed.    *)

\* names collections.namedtuple accepts as field names
Identifiers == {"id", "name"}

\* namedtuple('Record', names): every name an identifier, none twice
NamedTupleOk(names) ==
    /\ \A i \in 1..Len(names) : names[i] \in Identifiers
    /\ \A i, j \in 1..Len(names) : names[i] = names[j] => i = j

\* one row as a column-name-keyed mapping
RowMapping(keys, row) ==
    [n \in {keys[i] : i \in 1..Len(keys)} |->
        row[CHOOSE i \in 1..Len(keys) : keys[i] = n]]

\* Result.all() / Result.fetchall(): the rows not yet consumed
Remaining(cur) == SubSeq(cur.rows, cur.fetched + 1, Len(cur.rows))

\* lines 57-58: sql_cursor(rows)
Wrap(keys, rows) ==
    /\ ~cursor.made
    /\ cursor' = [NoCursor EXCEPT !.made = TRUE, !.keys = keys, !.rows = rows]
    /\ UNCHANGED <<calls, defaultParam, engine, store, tokens, verifs, requests>>

\* lines 60-61: self.rows.mappings().all()
Rows2Dict ==
    /\ cursor.made
    /\ \A i \in 1..Len(cursor.order) : cursor.order[i] # "rows2dict"
    /\ LET left == Remaining(cursor)
       IN  cursor' = [cursor EXCEPT
               !.dicts = [i \in 1..Len(left) |-> RowMapping(cursor.keys, left[i])],
               !.fetched = Len(cursor.rows),
               !.order = Append(@, "rows2dict")]
    /\ UNCHANGED <<calls, defaultParam, engine, store, tokens, verifs, requests>>

\* lines 63-65: Record = namedtuple('Record', self.rows.keys()), then one
\* Record per row of self.rows.fetchall()
Rows2Tuple ==
    /\ cursor.made
    /\ \A i \in 1..Len(cursor.order) : cursor.order[i] # "rows2tuple"
    /\ NamedTupleOk(cursor.keys)
    /\ LET left == Remaining(cursor)
       IN  cursor' = [cursor EXCEPT
               !.tuples = [i \in 1..Len(left) |-> RowMapping(cursor.keys, left[i])],
               !.fetched = Len(cursor.rows),
               !.order = Append(@, "rows2tuple")]
    /\ UNCHANGED <<calls, defaultParam, engine, store, tokens, verifs, requests>>

\* line 64 raises ValueError: a column name is no field name, or is repeated
Rows2TupleFails ==
    /\ cursor.made
    /\ \A i \in 1..Len(cursor.order) : cursor.order[i] # "rows2tuple"
    /\ ~NamedTupleOk(cursor.keys)
    /\ cursor' = [cursor EXCEPT
           !.error = "ValueError", !.order = Append(@, "rows2tuple")]
    /\ UNCHANGED <<calls, defaultParam, engine, store, tokens, verifs, requests>>

\* the column names of a read result
ResultKeys == { <<"id">>, <<"id", "name">>, <<"id", "id">>, <<"count(*)">> }
Values == {1, 2}

\* every sequence of at most n rows of the given width
RECURSIVE RowSeqs(_, _)
RowSeqs(width, n) ==
    IF n = 0 THEN {<<>>}
    ELSE LET shorter == RowSeqs(width, n - 1)
         IN  shorter \cup
             {Append(s, r) : s \in {x \in shorter : Len(x) = n - 1},
                             r \in [1..width -> Values]}

NextCursor ==
    \/ \E keys \in ResultKeys :
          \E rows \in RowSeqs(Len(keys), MaxResultRows) : Wrap(keys, rows)
    \/ Rows2Dict
    \/ Rows2Tuple
    \/ Rows2TupleFails

SpecCursor == Init /\ [][NextCursor]_vars

\* C9: once the same sql_cursor has been materialized both ways, in either
\* order, the two lists have the same length and, row by row and column by
\* column, the same values.
C9_RoundTrip ==
    (/\ cursor.made
     /\ cursor.error = "none"
     /\ Len(cursor.order) = 2) =>
        /\ Len(cursor.dicts) = Len(cursor.tuples)
        /\ \A i \in 1..Len(cursor.dicts) :
              \A k \in 1..Len(cursor.keys) :
                  cursor.tuples[i][cursor.keys[k]] = cursor.dicts[i][cursor.keys[k]]

-----------------------------------------------------------------------------
(* The highscore routes behind verify_and_log_token *)

Routes == {"GET /hiscore", "GET /hiscore/latest", "POST /hiscore"}

\* what the awaited verify_token does: it returns, raises its HTTPException,
\* or raises something else
VerifyOutcomes == {"ok", "HTTPException", "Exception"}

\* the dependency lets every outcome through
VerifyAndLogTokenSwallows(outcome) == "proceed"

\* lines 21-30: try / except Exception -> HTTPException(403)
VerifyAndLogToken(outcome) ==
    IF outcome = "ok" THEN "proceed" ELSE "HTTP_403_FORBIDDEN"

\* lines 45-46, 64-65, 79-80: the repository call of each route
RepoCall(route) ==
    CASE route = "GET /hiscore"        -> "PlayerHiscoreData.read"
      [] route = "GET /hiscore/latest" -> "PlayerHiscoreDataLatest.read"
      [] route = "POST /hiscore"       -> "PlayerHiscoreData.create"

\* lines 33, 50, 69: status of a normal response
SuccessStatus(route) == IF route = "POST /hiscore" THEN 201 ELSE 200

\* a request arrives; FastAPI resolves Depends(verify_and_log_token) first
Receive(r, route) ==
    /\ requests[r].pc = "idle"
    /\ requests' = [requests EXCEPT ![r] =
           [IdleRequest EXCEPT !.pc = "depends", !.route = route]]
    /\ UNCHANGED <<calls, defaultParam, engine, store, tokens, verifs, cursor>>

\* lines 16-30: verify_token ends; the dependency returns or raises 403
Depends(r, outcome) ==
    /\ requests[r].pc = "depends"
    /\ requests' = [requests EXCEPT ![r] =
           IF VerifyAndLogToken(outcome) = "proceed"
           THEN [@ EXCEPT !.pc = "handler", !.verify = outcome]
           ELSE [@ EXCEPT !.pc = "responded", !.verify = outcome,
                          !.status = 403]]
    /\ UNCHANGED <<calls, defaultParam, engine, store, tokens, verifs, cursor>>

\* lines 45-47, 64-66, 79-81: the route function runs
Handler(r) ==
    /\ requests[r].pc = "handler"
    /\ requests' = [requests EXCEPT ![r] =
           [@ EXCEPT !.pc = "responded",
                     !.repo = RepoCall(requests[r].route),
                     !.status = SuccessStatus(requests[r].route)]]
    /\ UNCHANGED <<calls, defaultParam, engine, store, tokens, verifs, cursor>>

\* the repository call raises
HandlerFails(r) ==
    /\ requests[r].pc = "handler"
    /\ requests' = [requests EXCEPT ![r] =
           [@ EXCEPT !.pc = "responded",
                     !.repo = RepoCall(requests[r].route),
                     !.status = 500]]
    /\ UNCHANGED <<calls, defaultParam, engine, store, tokens, verifs, cursor>>

NextRoute ==
    \E r \in 1..NumRequests :
        \/ \E route \in Routes : Receive(r, route)
        \/ \E outcome \in VerifyOutcomes : Depends(r, outcome)
        \/ Handler(r)
        \/ HandlerFails(r)

SpecRoute == Init /\ [][NextRoute]_vars

\* C10: on each of the three routes the repository is called only for a
\* request whose verify_token returned; a request whose verify_token raised
\* is answered 403 and never reaches the repository.
C10_VerifyBeforeRepository ==
    \A r \in 1..NumRequests :
        /\ requests[r].repo # "none" => requests[r].verify = "ok"
        /\ requests[r].verify \in {"HTTPException", "Exception"} =>
              /\ requests[r].repo = "none"
              /\ requests[r].pc = "responded"
              /\ requests[r].status = 403

\* one request was refused with 403, another went on to create
C10_Witness ==
    \E r, q \in 1..NumRequests :
        /\ requests[r].verify = "Exception"
        /\ requests[r].status = 403
        /\ requests[r].repo = "none"
        /\ requests[q].verify = "ok"
        /\ requests[q].repo = "PlayerHiscoreData.create"
        /\ requests[q].status = 201

====
